---- MODULE Spec2Model ----
(***************************************************************************)
(* Model of tv_data_supabase.py: the batch job that pulls daily bars for a *)
(* list of symbols from the market-data client and reconciles them into    *)
(* the persisted store, one worker-pool task per symbol.                   *)
(*                                                                         *)
(* One action is one external call (store or market-data client) or one    *)
(* access to the shared execution_stats dictionary, together with the      *)
(* thread-local code that follows it up to the next such point.            *)
(***************************************************************************)
EXTENDS Integers, Sequences, FiniteSets, Bags, TLC

(* ------------------------------ bounds -------------------------------- *)

\* Calendar days are 0..MaxDay and the run happens on the last of them.
MaxDay == 2

\* stop_after_attempt(3) of the retry decorator of _fetch_symbol_data.
MaxAttempts == 3

Days == 0..MaxDay

\* datetime.now().date() of the run.
Today == MaxDay

\* Time of day of a timestamp: 0 is midnight, 1 is any later time.
Tods == {0, 1}

(* ------------------------------ inputs -------------------------------- *)

\* The symbol lists a symbol file can hold: distinct codes, the same line
\* twice, and a lower-case line beside its upper-case spelling.
SymbolLists == {<<"A", "B">>, <<"A", "A">>, <<"a", "A">>}

\* str.upper() on the symbols of the lists.
Upper(s) == IF s = "a" THEN "A" ELSE s

\* A bar of the provider's table: its day, and whether its four numeric
\* fields are all numeric (a non-numeric field becomes NaN under coerce).
Bar(d, ok) == [day |-> d, ok |-> ok]

\* The tables get_hist returns when it returns one (in index order).
ProviderTables ==
  { <<Bar(Today, TRUE)>>,
    <<Bar(Today, TRUE), Bar(Today - 1, TRUE)>>,
    <<Bar(Today - 1, FALSE), Bar(Today, TRUE)>>,
    <<Bar(Today, FALSE)>> }

\* What one get_hist call does: raise, return None, or return a table
\* (possibly an empty one).
ProviderOutcomes ==
  {[kind |-> k, table |-> <<>>] : k \in {"raise", "none", "table"}}
  \cup {[kind |-> "table", table |-> tbl] : tbl \in ProviderTables}

VARIABLES
  config,           \* the config dict: FULL_REFRESH, MAX_WORKERS
  osenv,            \* os.environ: INCREMENTAL_FETCH_BARS, FORCE_RUN
  world,            \* what the run is given: the command line, the initial
                    \* environment, the weekday, the symbol file, the store's
                    \* date column type and rows, the bars' time of day,
                    \* whether the user presses Ctrl-C
  mainpc,           \* position of main() / run()
  store,            \* the persisted table: a set of rows
  tasks,            \* one record per submitted _process_symbol call
  execution_stats,  \* the shared statistics dictionary; its errors list is
                    \* kept as the bag of its entries (list.append is atomic)
  exit_code,        \* the argument of sys.exit, -1 while running
  report,           \* the summary file: whether save_summary_report was
                    \* called, whether it wrote the file, and the
                    \* statistics the file holds
  tester            \* the connection-test script inside
                    \* test_data_operations: its position, the metrics
                    \* of the open with-block, the results dict, and what
                    \* each store call returned

vars == <<config, osenv, world, mainpc, store, tasks, execution_stats, exit_code, report, tester>>

(* ------------------------- dates and the store ------------------------- *)

\* A pandas Timestamp: a day and a time of day.
Timestamp(d, t) == <<d, t>>

TsLeq(a, b) == a[1] < b[1] \/ (a[1] = b[1] /\ a[2] <= b[2])

\* The value the store keeps for a timestamp written to its date column: a
\* DATE column drops the time of day, a TIMESTAMP column keeps it.
StoreDate(ts) == IF world.dateColumn = "date" THEN Timestamp(ts[1], 0) ELSE ts

\* The string the store returns for a stored date: 'YYYY-MM-DD' from a DATE
\* column, 'YYYY-MM-DDTHH:MM:SS' from a TIMESTAMP column.
DateString(date) ==
  IF world.dateColumn = "date"
  THEN [fmt |-> "ymd", day |-> date[1], tod |-> 0]
  ELSE [fmt |-> "iso", day |-> date[1], tod |-> date[2]]

\* datetime.strptime(s, '%Y-%m-%d') accepts only the date-only format.
StrptimeOk(s) == s.fmt = "ymd"

\* The timestamp pandas casts a date string to (Series.isin casts strings).
ParseTimestamp(s) == Timestamp(s.day, s.tod)

\* A persisted row. v tells a row an earlier run left ("old") from one the
\* provider returned in this run ("new").
Row(code, date, v) == [code |-> code, date |-> date, v |-> v]

Key(r) == <<r.code, r.date>>

RowsOf(code) == {r \in store : r.code = code}

\* The uniqueness constraint on (code, date).
UniqueKeys(rows) == \A r1, r2 \in rows : Key(r1) = Key(r2) => r1 = r2

(* ---------------------------- Row Normalizer --------------------------- *)

RECURSIVE SelectSeq2(_, _)
\* The rows of a table that survive dropna, in table order.
SelectSeq2(tbl, n) ==
  IF n = 0 THEN <<>>
  ELSE IF tbl[n].ok THEN Append(SelectSeq2(tbl, n - 1), tbl[n])
       ELSE SelectSeq2(tbl, n - 1)

RECURSIVE InsertSorted(_, _)
InsertSorted(sorted, r) ==
  IF sorted = <<>> THEN <<r>>
  ELSE IF TsLeq(Head(sorted).date, r.date)
       THEN <<Head(sorted)>> \o InsertSorted(Tail(sorted), r)
       ELSE <<r>> \o sorted

RECURSIVE SortByDate(_)
\* df.sort_values('date').
SortByDate(rows) ==
  IF rows = <<>> THEN <<>>
  ELSE InsertSorted(SortByDate(SubSeq(rows, 1, Len(rows) - 1)), rows[Len(rows)])

\* ProcessDataframe without dropna: the rows with a NaN field stay.
ProcessDataframeNoDropna(tbl, symbol) ==
  SortByDate([k \in 1..Len(tbl) |->
                Row(Upper(symbol), Timestamp(tbl[k].day, world.barTime), "new")])

\* _process_dataframe: stamp the upper-cased code, turn the index into the
\* date column, coerce, drop the rows with a missing field, sort by date.
ProcessDataframe(tbl, symbol) ==
  LET kept == SelectSeq2(tbl, Len(tbl))
      rows == [k \in 1..Len(kept) |->
                 Row(Upper(symbol), Timestamp(kept[k].day, world.barTime), "new")]
  IN SortByDate(rows)

\* df.to_dict('records') as the store takes it: one row per record, the
\* date converted by the column type.
Records(df) == {Row(df[k].code, StoreDate(df[k].date), df[k].v) : k \in 1..Len(df)}

(* ---------------------------- Freshness Gate --------------------------- *)

\* INCREMENTAL_FETCH_BARS as os.getenv(..., 'true').lower() == 'true' reads it.
IncrementalFetch == osenv.INCREMENTAL_FETCH_BARS \in {"unset", "true"}

\* GateConsulted without the test of FULL_REFRESH.
GateConsultedInFullRefresh == IncrementalFetch

\* Whether an attempt of _fetch_symbol_data consults the gate.
GateConsulted == ~config.FULL_REFRESH /\ IncrementalFetch

\* select('date').eq('code', symbol).gte('date', str(today)).
TodayRows(symbol) == {r \in RowsOf(symbol) : r.date[1] >= Today}

\* select('date').eq('code', symbol).order('date', desc=True).limit(1).
LastRows(symbol) ==
  {r \in RowsOf(symbol) : \A q \in RowsOf(symbol) : TsLeq(q.date, r.date)}

\* GateOnError with the except clause answering "no new data needed".
GateOnErrorSkips == "skip"

\* The gate when a lookup or the date parsing raised: except -> return True.
GateOnError == "fetch"

\* The gate after its first lookup returned `rows`: a row of today or later
\* means skip, otherwise the second lookup follows.
GateAfterToday(rows) == IF rows # {} THEN "skip" ELSE "lookup"

\* GateAfterLast with the boundary off by one: more than one day.
GateAfterLastStrict(rows) ==
  IF rows = {} THEN "fetch"
  ELSE LET s == DateString((CHOOSE r \in rows : TRUE).date)
       IN IF ~StrptimeOk(s) THEN GateOnError
          ELSE IF Today - s.day > 1 THEN "fetch" ELSE "skip"

\* The gate after its second lookup returned `rows` (at most one row).
GateAfterLast(rows) ==
  IF rows = {} THEN "fetch"
  ELSE LET s == DateString((CHOOSE r \in rows : TRUE).date)
       IN IF ~StrptimeOk(s) THEN GateOnError        \* ValueError, caught
          ELSE IF Today - s.day >= 1 THEN "fetch" ELSE "skip"

(* ------------------------------- tasks -------------------------------- *)

Symbols == world.symbols

TaskIds == DOMAIN tasks

NewTask ==
  [pc |-> "queued", attempt |-> 0, df |-> <<>>, df_new |-> <<>>,
   new_records |-> 0, reg |-> 0,
   gate |-> "none", gate_raised |-> FALSE, calls |-> 0, writes |-> 0,
   applied |-> <<>>, raw |-> 0,
   result |-> "none"]

Running == {i \in TaskIds : tasks[i].pc \notin {"queued", "done"}}

\* AttemptEntry with get_hist called before the gate is asked.
AttemptEntryNoGate == "get_hist"

\* Where an attempt of _fetch_symbol_data begins.
AttemptEntry == IF GateConsulted THEN "gate_today" ELSE "get_hist"

\* _process_symbol returned: the locals are gone; what stays is the
\* outcome, the number of get_hist calls and store writes the task issued,
\* and the df it gave to _upsert_data.
Finished(t, result) ==
  [t EXCEPT !.pc = "done", !.result = result, !.df = <<>>, !.df_new = <<>>,
            !.reg = 0, !.new_records = 0, !.attempt = 0, !.raw = 0]

\* _upsert_data is entered with a non-empty df.
UpsertEntry == IF config.FULL_REFRESH THEN "delete" ELSE "existing_dates"

\* A free worker thread of the pool takes the next task of the queue and
\* enters _process_symbol, _fetch_symbol_data (attempt 1).
StartTask(i) ==
  /\ mainpc \in {"pool", "interrupted"}
  /\ tasks[i].pc = "queued"
  /\ \A j \in TaskIds : j < i => tasks[j].pc # "queued"
  /\ Cardinality(Running) < config.MAX_WORKERS
  /\ tasks' = [tasks EXCEPT ![i].pc = AttemptEntry, ![i].attempt = 1]
  /\ UNCHANGED <<config, osenv, world, mainpc, store, execution_stats, exit_code, report, tester>>

\* The gate's verdict reaches _fetch_symbol_data: skip returns None, and
\* _process_symbol returns False.
GateVerdict(t, verdict) ==
  IF verdict = "skip" THEN Finished(t, "skipped")
  ELSE IF verdict = "lookup" THEN [t EXCEPT !.pc = "gate_last"]
  ELSE [t EXCEPT !.pc = "get_hist"]

\* _check_if_new_data_needed, first lookup: is there a row of today?
\* Until get_hist is called, t.gate keeps how the gate of this attempt
\* ended: "skip", "fetch", or "error" when its except clause answered;
\* t.gate_raised keeps whether the except clause ever answered in this task.
GateToday(i) ==
  /\ tasks[i].pc = "gate_today"
  /\ \E fails \in BOOLEAN :
       LET verdict == IF fails THEN GateOnError
                      ELSE GateAfterToday(TodayRows(Symbols[i]))
           t == [tasks[i] EXCEPT !.gate = IF fails THEN "error" ELSE verdict,
                                 !.gate_raised = @ \/ fails]
       IN tasks' = [tasks EXCEPT ![i] = GateVerdict(t, verdict)]
  /\ UNCHANGED <<config, osenv, world, mainpc, store, execution_stats, exit_code, report, tester>>

\* _check_if_new_data_needed, second lookup: the most recent persisted date.
GateLast(i) ==
  /\ tasks[i].pc = "gate_last"
  /\ \E fails \in BOOLEAN :
       LET rows == LastRows(Symbols[i])
           parseFails == rows # {} /\
                         ~StrptimeOk(DateString((CHOOSE r \in rows : TRUE).date))
           verdict == IF fails THEN GateOnError ELSE GateAfterLast(rows)
           t == [tasks[i] EXCEPT !.gate =
                   IF fails \/ parseFails THEN "error" ELSE verdict,
                   !.gate_raised = @ \/ fails \/ parseFails]
       IN tasks' = [tasks EXCEPT ![i] = GateVerdict(t, verdict)]
  /\ UNCHANGED <<config, osenv, world, mainpc, store, execution_stats, exit_code, report, tester>>

(* ---------------------------- fetch boundary --------------------------- *)

\* AfterRaise allowing one attempt more than MaxAttempts.
AfterRaiseOneMore(t) ==
  IF t.attempt <= MaxAttempts
  THEN [t EXCEPT !.attempt = @ + 1, !.pc = AttemptEntry]
  ELSE [t EXCEPT !.pc = "failed_read"]

\* AfterRaise without the retry: the first error reaches _process_symbol.
AfterRaiseNoRetry(t) == [t EXCEPT !.pc = "failed_read"]

\* The retry decorator after an attempt raised: another attempt while fewer
\* than MaxAttempts were made, otherwise the error reaches _process_symbol,
\* whose except clause starts failed_fetches += 1.
AfterRaise(t) ==
  IF t.attempt < MaxAttempts
  THEN [t EXCEPT !.attempt = @ + 1, !.pc = AttemptEntry]
  ELSE [t EXCEPT !.pc = "failed_read"]

\* AfterNoData taking the absent table for an error of the attempt.
AfterNoDataRaises(t) ==
  IF t.attempt < MaxAttempts
  THEN [t EXCEPT !.attempt = @ + 1, !.pc = AttemptEntry]
  ELSE [t EXCEPT !.pc = "failed_read"]

\* get_hist returned None or an empty table: _fetch_symbol_data logs a
\* warning and returns None, and _process_symbol returns False.
AfterNoData(t) == Finished(t, "nodata")

\* AfterFetch without the test of df.empty: an empty df reaches _upsert_data.
AfterFetchEmptyToo(t, df) ==
  [t EXCEPT !.df = df, !.applied = df, !.pc = UpsertEntry]

\* What _process_symbol does with the df _fetch_symbol_data returned.
AfterFetch(t, df) ==
  IF df = <<>> THEN Finished(t, "empty")
  ELSE [t EXCEPT !.df = df, !.applied = df, !.pc = UpsertEntry]

\* tv_client.get_hist and what follows it in _fetch_symbol_data; t.raw
\* keeps the number of rows of the table get_hist returned.
GetHist(i) ==
  /\ tasks[i].pc = "get_hist"
  /\ \E out \in ProviderOutcomes :
       LET t == [tasks[i] EXCEPT !.calls = @ + 1, !.gate = "none"] IN
       IF out.kind = "raise"
       THEN /\ tasks' = [tasks EXCEPT ![i] = AfterRaise(t)]
            /\ execution_stats' =
                 [execution_stats EXCEPT !.errors = @ (+) SetToBag({Symbols[i]})]
       ELSE /\ tasks' = [tasks EXCEPT ![i] =
                 IF out.kind = "none" \/ out.table = <<>>
                 THEN AfterNoData(t)
                 ELSE AfterFetch([t EXCEPT !.raw = Len(out.table)],
                                 ProcessDataframe(out.table, Symbols[i]))]
            /\ UNCHANGED execution_stats
  /\ UNCHANGED <<config, osenv, world, mainpc, store, exit_code, report, tester>>

(* --------------------------- Upsert Reconciler ------------------------- *)

\* WriteFailed with the error handed to the retry of the fetch boundary.
WriteFailedRetried(t) == AfterRaise([t EXCEPT !.writes = @ + 1])

\* A store write that raised: _upsert_data logs and re-raises, and the
\* except clause of _process_symbol starts failed_fetches += 1.
WriteFailed(t) == [t EXCEPT !.writes = @ + 1, !.pc = "failed_read"]

\* The rows delete().eq('code', symbol) removes.
DeletedRows(symbol) == RowsOf(symbol)

\* Full refresh, first call: delete every row of the symbol.
Delete(i) ==
  /\ tasks[i].pc = "delete"
  /\ \/ /\ store' = store \ DeletedRows(Symbols[i])
        /\ tasks' = [tasks EXCEPT ![i].writes = @ + 1, ![i].pc = "insert"]
     \/ /\ tasks' = [tasks EXCEPT ![i] = WriteFailed(@)]
        /\ UNCHANGED store
  /\ UNCHANGED <<config, osenv, world, mainpc, execution_stats, exit_code, report, tester>>

\* An insert is accepted when no key of the batch is persisted already or
\* twice in the batch.
InsertAccepted(df) ==
  /\ Cardinality(Records(df)) = Len(df)
  /\ UniqueKeys(store \cup Records(df))

\* Full refresh, second call: insert the whole df.
Insert(i) ==
  /\ tasks[i].pc = "insert"
  /\ \/ /\ InsertAccepted(tasks[i].df)
        /\ store' = store \cup Records(tasks[i].df)
        /\ tasks' = [tasks EXCEPT ![i].writes = @ + 1, ![i].pc = "stat_read",
                                  ![i].new_records = Len(tasks[i].df)]
     \/ /\ tasks' = [tasks EXCEPT ![i] = WriteFailed(@)]
        /\ UNCHANGED store
  /\ UNCHANGED <<config, osenv, world, mainpc, execution_stats, exit_code, report, tester>>

\* _get_existing_dates when its select returned: the date strings of the
\* symbol's rows.
ExistingDatesRead(symbol) == {DateString(r.date) : r \in RowsOf(symbol)}

\* _get_existing_dates when its select raised: except -> return set().
ExistingDatesOnError == {}

\* df[~df['date'].isin(existing_dates)]: isin casts the strings to timestamps.
DfNew(df, existing_dates) ==
  SelectSeq(df, LAMBDA r :
    r.date \notin {ParseTimestamp(s) : s \in existing_dates})

\* Incremental, the read: the dates already persisted, then the filter.
ExistingDates(i) ==
  /\ tasks[i].pc = "existing_dates"
  /\ \E fails \in BOOLEAN :
       LET dates == IF fails THEN ExistingDatesOnError
                    ELSE ExistingDatesRead(Symbols[i])
           new == DfNew(tasks[i].df, dates)
       IN tasks' = [tasks EXCEPT ![i] =
            IF new = <<>>
            THEN [@ EXCEPT !.pc = "stat_read", !.new_records = 0]
            ELSE [@ EXCEPT !.pc = "upsert", !.df_new = new]]
  /\ UNCHANGED <<config, osenv, world, mainpc, store, execution_stats, exit_code, report, tester>>

\* upsert(rows, on_conflict='code,date'): a row whose key is persisted
\* replaces the persisted row.
Upserted(rows) == {r \in store : \A n \in rows : Key(n) # Key(r)} \cup rows

\* Incremental, the write: upsert df_new.
Upsert(i) ==
  /\ tasks[i].pc = "upsert"
  /\ \/ /\ Cardinality(Records(tasks[i].df_new)) = Len(tasks[i].df_new)
        /\ store' = Upserted(Records(tasks[i].df_new))
        /\ tasks' = [tasks EXCEPT ![i].writes = @ + 1, ![i].pc = "stat_read",
                                  ![i].new_records = Len(tasks[i].df_new)]
     \/ /\ tasks' = [tasks EXCEPT ![i] = WriteFailed(@)]
        /\ UNCHANGED store
  /\ UNCHANGED <<config, osenv, world, mainpc, execution_stats, exit_code, report, tester>>

(* --------------------------- ExecutionStats ---------------------------- *)

\* execution_stats[k] += n is a read of the entry followed by a write of
\* the sum: another thread may write the entry in between.  A write is
\* taken together with the read of the next counter, which is another
\* entry of the dictionary.

\* successful_fetches += 1, the read.
StatRead(i) ==
  /\ tasks[i].pc = "stat_read"
  /\ tasks' = [tasks EXCEPT ![i].reg = execution_stats.successful_fetches,
                            ![i].pc = "stat_successful"]
  /\ UNCHANGED <<config, osenv, world, mainpc, store, execution_stats, exit_code, report, tester>>

\* successful_fetches += 1, the write; total_records += len(df), the read.
StatSuccessful(i) ==
  /\ tasks[i].pc = "stat_successful"
  /\ execution_stats' =
       [execution_stats EXCEPT !.successful_fetches = tasks[i].reg + 1]
  /\ tasks' = [tasks EXCEPT ![i].reg = execution_stats.total_records,
                            ![i].pc = "stat_total"]
  /\ UNCHANGED <<config, osenv, world, mainpc, store, exit_code, report, tester>>

\* total_records += len(df), the write; new_records += new_records, the read.
StatTotal(i) ==
  /\ tasks[i].pc = "stat_total"
  /\ execution_stats' =
       [execution_stats EXCEPT !.total_records = tasks[i].reg + Len(tasks[i].df)]
  /\ tasks' = [tasks EXCEPT ![i].reg = execution_stats.new_records,
                            ![i].pc = "stat_new"]
  /\ UNCHANGED <<config, osenv, world, mainpc, store, exit_code, report, tester>>

\* new_records += new_records, the write; updated_records += 0, read and
\* write (the sum is the value read unless another thread wrote in between;
\* updated_records is only ever written with 0); _process_symbol returns True.
StatNew(i) ==
  /\ tasks[i].pc = "stat_new"
  /\ execution_stats' =
       [execution_stats EXCEPT !.new_records = tasks[i].reg + tasks[i].new_records]
  /\ tasks' = [tasks EXCEPT ![i] = Finished(@, "success")]
  /\ UNCHANGED <<config, osenv, world, mainpc, store, exit_code, report, tester>>

\* failed_fetches += 1 in the except clause of _process_symbol, the read.
FailedRead(i) ==
  /\ tasks[i].pc = "failed_read"
  /\ tasks' = [tasks EXCEPT ![i].reg = execution_stats.failed_fetches,
                            ![i].pc = "failed_write"]
  /\ UNCHANGED <<config, osenv, world, mainpc, store, execution_stats, exit_code, report, tester>>

\* failed_fetches += 1, the write; _process_symbol returns False.
FailedWrite(i) ==
  /\ tasks[i].pc = "failed_write"
  /\ execution_stats' =
       [execution_stats EXCEPT !.failed_fetches = tasks[i].reg + 1]
  /\ tasks' = [tasks EXCEPT ![i] = Finished(@, "failed")]
  /\ UNCHANGED <<config, osenv, world, mainpc, store, exit_code, report, tester>>

(* ------------------------ Calendar Guard, run() ------------------------ *)

\* _is_weekend_or_holiday taking Sunday alone for the weekend.
IsWeekendOrHolidaySundayOnly == world.weekday > 5 \/ world.holiday

\* _is_weekend_or_holiday: Saturday is weekday 5 and Sunday 6; otherwise a
\* match in holiday_dates.txt or in the hardcoded list.
IsWeekendOrHoliday == world.weekday >= 5 \/ world.holiday

ForceRun == osenv.FORCE_RUN = "true"

InitialStats ==
  [total_symbols |-> 0, successful_fetches |-> 0, failed_fetches |-> 0,
   total_records |-> 0, new_records |-> 0, updated_records |-> 0,
   errors |-> EmptyBag]

\* Whether run() returns before any setup.
GuardSkips == IsWeekendOrHoliday /\ ~ForceRun

\* main(): load_config, then the command line is applied to the config and
\* the environment. int(os.getenv('INCREMENTAL_FETCH_BARS', '100')) raises
\* on a value that is no integer, which main() turns into exit code 1.
LoadConfigRaises == osenv.INCREMENTAL_FETCH_BARS \in {"true", "false"}

Main ==
  /\ mainpc = "main"
  /\ IF LoadConfigRaises
     THEN /\ mainpc' = "exited"
          /\ exit_code' = 1
          /\ UNCHANGED <<config, osenv>>
     ELSE /\ mainpc' = "run"
          /\ config' = [FULL_REFRESH |-> world.args.full_refresh,
                        MAX_WORKERS |-> world.args.workers]
          /\ osenv' = IF world.args.disable_incremental
                      THEN [osenv EXCEPT !.INCREMENTAL_FETCH_BARS = "false"]
                      ELSE osenv
          /\ UNCHANGED exit_code
  /\ UNCHANGED <<world, store, tasks, execution_stats, report, tester>>

\* run() on a weekend or holiday without FORCE_RUN: the statistics are
\* returned as they were created.
RunSkipped ==
  /\ mainpc = "run"
  /\ GuardSkips
  /\ mainpc' = "returned"
  /\ UNCHANGED <<config, osenv, world, store, tasks, execution_stats, exit_code, report, tester>>

\* run() past the guard: _load_symbols, _initialize_clients, and one
\* executor.submit per symbol.
RunSubmit ==
  /\ mainpc = "run"
  /\ ~GuardSkips
  /\ mainpc' = "pool"
  /\ execution_stats' =
       [execution_stats EXCEPT !.total_symbols = Len(world.symbols)]
  /\ tasks' = [i \in 1..Len(world.symbols) |-> NewTask]
  /\ UNCHANGED <<config, osenv, world, store, exit_code, report, tester>>

\* run() past the guard when _initialize_clients raises: the except clause
\* of run() records the error and returns the statistics.
RunCritical ==
  /\ mainpc = "run"
  /\ ~GuardSkips
  /\ mainpc' = "returned"
  /\ execution_stats' =
       [execution_stats EXCEPT !.total_symbols = Len(world.symbols),
                               !.errors = @ (+) SetToBag({"Critical"})]
  /\ UNCHANGED <<config, osenv, world, store, tasks, exit_code, report, tester>>

\* AllDone satisfied by the first future that completes.
AnyDone == \E i \in TaskIds : tasks[i].pc = "done"

\* Every future has completed.
AllDone == \A i \in TaskIds : tasks[i].pc = "done"

\* The with-block of the executor ends when every future has completed;
\* run() then finalizes and returns the statistics.
RunReturn ==
  /\ mainpc = "pool"
  /\ AllDone
  /\ mainpc' = "returned"
  /\ UNCHANGED <<config, osenv, world, store, tasks, execution_stats, exit_code, report, tester>>

\* The exit code main() chooses from the statistics run() returned.
ExitCode == IF execution_stats.failed_fetches > 0 THEN 1 ELSE 0

\* save_summary_report: json.dump of the statistics; an error of the write
\* is printed and swallowed, and the file is not written.
SaveSummaryReport(ok) ==
  IF ok THEN [called |-> TRUE, saved |-> TRUE, stats |-> execution_stats]
  ELSE [report EXCEPT !.called = TRUE]

\* main() after run(): the report is saved and the exit code chosen.
Exit ==
  /\ mainpc = "returned"
  /\ mainpc' = "exited"
  /\ \E ok \in BOOLEAN : report' = SaveSummaryReport(ok)
  /\ exit_code' = ExitCode
  /\ UNCHANGED <<config, osenv, world, store, tasks, execution_stats, tester>>

\* Ctrl-C while main() is inside run(): KeyboardInterrupt is no Exception,
\* so the except clause of run() lets it pass; it leaves the with-block of
\* the executor, whose exit waits for the submitted tasks.
Interrupt ==
  /\ world.interrupt
  /\ mainpc \in {"run", "pool"}
  /\ mainpc' = "interrupted"
  /\ UNCHANGED <<config, osenv, world, store, tasks, execution_stats, exit_code, report, tester>>

\* The exit code of the except KeyboardInterrupt clause of main().
InterruptExitCode == 130

\* main(), except KeyboardInterrupt: a message is printed and the process
\* exits; save_summary_report is not called on this path.
ExitInterrupted ==
  /\ mainpc = "interrupted"
  /\ AllDone
  /\ mainpc' = "exited"
  /\ exit_code' = InterruptExitCode
  /\ UNCHANGED <<config, osenv, world, store, tasks, execution_stats, report, tester>>

(* ----------------------- the connection-test script ------------------- *)

\* The operations test_data_operations measures, in the order of the code.
Operations == <<"single_insert", "select_operations", "filtered_select">>

\* What a store call of the script does: raise, return a result without
\* data, or return a result with data.
CallOutcomes == {"raise", "empty", "data"}

\* PerformanceMetrics as measure_performance creates it: success is False.
NewMetrics(operation) ==
  [operation |-> operation, success |-> FALSE, error_message |-> ""]

\* The script before test_data_operations is called.
TesterIdle ==
  [pc |-> "idle", op |-> 1, metrics |-> NewMetrics("none"),
   results |-> <<>>, returned |-> <<>>]

\* After an operation: the next with-block, or return results.
NextOperation(t) ==
  IF t.op < Len(Operations)
  THEN [t EXCEPT !.op = @ + 1, !.pc = "enter"]
  ELSE [t EXCEPT !.pc = "done"]

\* test_data_operations is called: results = {}.
TestDataOperations ==
  /\ tester.pc = "idle"
  /\ tester' = [tester EXCEPT !.pc = "enter", !.op = 1]
  /\ UNCHANGED <<config, osenv, world, mainpc, store, tasks, execution_stats, exit_code, report>>

\* with measure_performance(op) as metrics: the generator runs up to its
\* yield.
EnterMeasure ==
  /\ tester.pc = "enter"
  /\ tester' = [tester EXCEPT !.metrics = NewMetrics(Operations[tester.op]),
                              !.pc = "call"]
  /\ UNCHANGED <<config, osenv, world, mainpc, store, tasks, execution_stats, exit_code, report>>

\* The store call inside the with-block. When it raises, the except clause
\* of measure_performance sets success False and the message and re-raises,
\* and the except clause of test_data_operations sets results[op] = False.
StoreCall ==
  /\ tester.pc = "call"
  /\ \E out \in CallOutcomes :
       LET op == Operations[tester.op]
           t == [tester EXCEPT !.returned = (op :> out) @@ @] IN
       tester' =
         IF out = "raise"
         THEN NextOperation(
                [t EXCEPT !.metrics.success = FALSE,
                          !.metrics.error_message = "error",
                          !.results = (op :> FALSE) @@ @])
         ELSE [t EXCEPT !.pc = "assign"]
  /\ UNCHANGED <<config, osenv, world, mainpc, store, tasks, execution_stats, exit_code, report>>

\* results[op] = metrics.success and bool(result.data), still inside the
\* with-block.
AssignResult ==
  /\ tester.pc = "assign"
  /\ LET op == Operations[tester.op] IN
     tester' = [tester EXCEPT
       !.results = (op :> (tester.metrics.success /\ tester.returned[op] = "data")) @@ @,
       !.pc = "exit"]
  /\ UNCHANGED <<config, osenv, world, mainpc, store, tasks, execution_stats, exit_code, report>>

\* The with-block ends: the generator resumes after its yield and sets
\* metrics.success = True.
ExitMeasure ==
  /\ tester.pc = "exit"
  /\ tester' = NextOperation([tester EXCEPT !.metrics.success = TRUE])
  /\ UNCHANGED <<config, osenv, world, mainpc, store, tasks, execution_stats, exit_code, report>>

(* ------------------------------ the runs ------------------------------- *)

\* The rows earlier runs left: code "A" on the days of w.days, their dates
\* as the store's date column keeps them.
InitialStore(w) ==
  {Row("A", IF w.dateColumn = "date" THEN Timestamp(d, 0)
            ELSE Timestamp(d, w.barTime), "old") : d \in w.days}

\* The sets of days an earlier run left rows for.
InitialDaySets == {{}} \cup {{d} : d \in Days} \cup {{0, Today - 1}}

\* A weekday run of one upper-case symbol on an incremental, gated job.
BaseWorld ==
  [args |-> [full_refresh |-> FALSE, disable_incremental |-> FALSE, workers |-> 5],
   env |-> [INCREMENTAL_FETCH_BARS |-> "unset", FORCE_RUN |-> "false"],
   weekday |-> 4, holiday |-> FALSE,
   symbols |-> <<"A">>, dateColumn |-> "date", barTime |-> 0,
   days |-> {Today - 1}, interrupt |-> FALSE]

\* The calendar, the environment and the command line vary.
GuardWorlds ==
  {[BaseWorld EXCEPT !.weekday = wd, !.holiday = h,
                     !.env = [INCREMENTAL_FETCH_BARS |-> ev, FORCE_RUN |-> fr],
                     !.args = [full_refresh |-> f, disable_incremental |-> d,
                               workers |-> 5]] :
     wd \in {4, 5, 6}, h \in BOOLEAN, ev \in {"unset", "true", "100"},
     fr \in {"false", "true"}, f \in BOOLEAN, d \in BOOLEAN}

\* The store's content and date column, the bars' time of day and the mode
\* vary; the tasks run one after the other (--workers 1).
StoreWorlds ==
  {[BaseWorld EXCEPT !.args = [full_refresh |-> f, disable_incremental |-> FALSE,
                               workers |-> 1],
                     !.symbols = syms, !.dateColumn = col, !.barTime = bt,
                     !.days = days] :
     f \in BOOLEAN, syms \in {<<"A">>, <<"a">>, <<"A", "A">>},
     col \in {"date", "timestamp"}, bt \in Tods, days \in InitialDaySets}

\* Two tasks run concurrently (the default --workers 5).
PoolWorlds ==
  {[BaseWorld EXCEPT !.args = [full_refresh |-> f, disable_incremental |-> FALSE,
                               workers |-> 5],
                     !.symbols = syms, !.days = days] :
     f \in BOOLEAN, syms \in SymbolLists, days \in {{}, {Today - 1}}}

\* The user interrupts the run at some moment.
InterruptWorlds ==
  {[BaseWorld EXCEPT !.interrupt = TRUE, !.symbols = syms, !.weekday = wd] :
     syms \in {<<"A">>, <<"A", "B">>}, wd \in {4, 5}}

Worlds == GuardWorlds \cup StoreWorlds \cup PoolWorlds \cup InterruptWorlds

Init ==
  /\ world \in Worlds
  /\ osenv = world.env
  /\ config = [FULL_REFRESH |-> FALSE, MAX_WORKERS |-> 5]
  /\ mainpc = "main"
  /\ store = InitialStore(world)
  /\ tasks = <<>>
  /\ execution_stats = InitialStats
  /\ exit_code = -1
  /\ report = [called |-> FALSE, saved |-> FALSE, stats |-> InitialStats]
  /\ tester = TesterIdle

Next ==
  \/ Main
  \/ RunSkipped
  \/ RunSubmit
  \/ RunCritical
  \/ RunReturn
  \/ Exit
  \/ Interrupt
  \/ ExitInterrupted
  \/ \E i \in TaskIds : StartTask(i)
  \/ \E i \in TaskIds : GateToday(i)
  \/ \E i \in TaskIds : GateLast(i)
  \/ \E i \in TaskIds : GetHist(i)
  \/ \E i \in TaskIds : Delete(i)
  \/ \E i \in TaskIds : Insert(i)
  \/ \E i \in TaskIds : ExistingDates(i)
  \/ \E i \in TaskIds : Upsert(i)
  \/ \E i \in TaskIds : StatRead(i)
  \/ \E i \in TaskIds : StatSuccessful(i)
  \/ \E i \in TaskIds : StatTotal(i)
  \/ \E i \in TaskIds : StatNew(i)
  \/ \E i \in TaskIds : FailedRead(i)
  \/ \E i \in TaskIds : FailedWrite(i)

Spec == Init /\ [][Next]_vars

(* ------------------------------- claims -------------------------------- *)

Succeeded == {i \in TaskIds : tasks[i].result = "success"}

Failed == {i \in TaskIds : tasks[i].result = "failed"}

RunOver == mainpc \in {"returned", "exited"}

\* C1: once the fan-out has completed, successful_fetches is the number of
\* symbols whose pipeline succeeded and failed_fetches the number of symbols
\* whose pipeline raised: no increment is lost to a concurrent update.
C1_NoLostUpdate ==
  RunOver =>
    /\ execution_stats.successful_fetches = Cardinality(Succeeded)
    /\ execution_stats.failed_fetches = Cardinality(Failed)

\* The tasks run one after the other, in list order.
Sequential == config.MAX_WORKERS = 1

InStats(t) == t.pc \in {"stat_read", "stat_successful", "stat_total", "stat_new"}

\* C2: incremental reconciliation is idempotent: once _upsert_data has
\* succeeded for a symbol, applying it again with the same normalized
\* sequence and no writer in between issues no store write and returns (0, 0).
C2_IncrementalIdempotent ==
  \A j, k \in TaskIds :
    ( /\ Sequential /\ ~config.FULL_REFRESH /\ j < k
      /\ Symbols[j] = Symbols[k]
      /\ tasks[j].result = "success"
      /\ tasks[k].applied # <<>>
      /\ tasks[k].applied = tasks[j].applied )
    => /\ tasks[k].pc # "upsert"
       /\ tasks[k].writes = 0
       /\ InStats(tasks[k]) => tasks[k].new_records = 0

\* The instrument codes the rows of a normalized sequence carry.
CodesOf(df) == {df[k].code : k \in 1..Len(df)}

\* C3: in full-refresh mode, after _upsert_data returned successfully for a
\* sequence of M >= 1 rows, the store holds exactly the M rows of the
\* sequence for that instrument code, none of the old rows, and the call
\* returned (M, 0).
C3_FullRefreshReplaces ==
  \A i \in TaskIds :
    (config.FULL_REFRESH /\ Sequential /\ tasks[i].pc = "stat_read")
    => /\ {r \in store : r.code \in CodesOf(tasks[i].df)} = Records(tasks[i].df)
       /\ \A r \in store : r.code \in CodesOf(tasks[i].df) => r.v # "old"
       /\ tasks[i].new_records = Len(tasks[i].df)

\* The job is incremental and its gate enabled.
Gated == ~world.args.full_refresh /\ osenv.INCREMENTAL_FETCH_BARS = "unset"

\* The store held a row of today for the symbol when the run began: rows
\* written for a symbol carry its upper-cased code.
TodayPersisted(symbol) ==
  \E r \in InitialStore(world) : r.code = Upper(symbol) /\ r.date[1] = Today

\* C4: on a gated incremental job, a task whose symbol has a persisted row
\* dated today, and whose gate lookup did not raise, never calls get_hist,
\* issues no store write, and ends skipped.
C4_SkipWhenTodayPersisted ==
  \A i \in TaskIds :
    (Gated /\ TodayPersisted(Symbols[i]) /\ ~tasks[i].gate_raised)
    => /\ tasks[i].calls = 0
       /\ tasks[i].writes = 0
       /\ tasks[i].pc \in {"queued", "gate_today", "done"}
       /\ tasks[i].pc = "done" =>
            tasks[i].result = "skipped" /\ tasks[i].gate = "skip"

\* The days for which the store holds a row under `symbol`.
PersistedDays(symbol) == {r.date[1] : r \in {q \in store : q.code = symbol}}

MaxOf(S) == CHOOSE d \in S : \A e \in S : e <= d

\* The gate's table: skip if a row of today exists; fetch if the symbol has
\* no row; otherwise fetch when today is at least a day after the most
\* recent persisted date, and skip when it is not.
TableVerdict(symbol) ==
  IF Today \in PersistedDays(symbol) THEN "skip"
  ELSE IF PersistedDays(symbol) = {} THEN "fetch"
  ELSE IF Today - MaxOf(PersistedDays(symbol)) >= 1 THEN "fetch"
  ELSE "skip"

\* A step of task i inside _check_if_new_data_needed in which nothing raised.
GateStep(i) ==
  /\ tasks[i].pc \in {"gate_today", "gate_last"}
  /\ tasks'[i] # tasks[i]
  /\ tasks'[i].gate # "error"

C6_GateErrorFetches ==
  \A i \in TaskIds :
    /\ tasks[i].gate = "error" =>
         /\ tasks[i].pc = "get_hist"
         /\ tasks[i].result = "none"
         /\ tasks[i].calls = tasks[i].attempt - 1
    /\ tasks[i].gate = "skip" => Today \in PersistedDays(Symbols[i])
    /\ (world.dateColumn = "timestamp" /\ tasks[i].result = "skipped")
         => Today \in PersistedDays(Symbols[i])

\* The gate's except clause answered although a row of today is persisted.
C6_Witness ==
  \E i \in TaskIds :
    /\ tasks[i].gate = "error" /\ tasks[i].pc = "get_hist"
    /\ PersistedDays(Symbols[i]) # {}

\* C7: with --full-refresh or --disable-incremental the gate is bypassed:
\* no task makes a gate lookup, none is skipped, and every task that has
\* started stands before get_hist or has called it.
C7_GateBypassed ==
  \A i \in TaskIds :
    (world.args.full_refresh \/ world.args.disable_incremental)
    => /\ tasks[i].pc \notin {"gate_today", "gate_last"}
       /\ tasks[i].gate = "none" /\ ~tasks[i].gate_raised
       /\ tasks[i].result # "skipped"
       /\ tasks[i].pc # "queued" => (tasks[i].pc = "get_hist" \/ tasks[i].calls >= 1)

\* A task of a bypassed gate called get_hist for a symbol whose last row is
\* the one it would have been skipped for.
C7_Witness ==
  \E i \in TaskIds :
    /\ world.args.disable_incremental \/ world.args.full_refresh
    /\ PersistedDays(Symbols[i]) # {}
    /\ tasks[i].pc = "done" /\ tasks[i].calls >= 1

\* C8: a run on a Saturday or Sunday without FORCE_RUN submits no task,
\* touches neither the store nor the statistics; with FORCE_RUN=true, once
\* run() has returned without a critical error, every symbol has a task
\* that went through the pipeline.
C8_CalendarGuard ==
  /\ (world.weekday >= 5 /\ osenv.FORCE_RUN # "true")
       => /\ tasks = <<>>
          /\ execution_stats = InitialStats
          /\ store = InitialStore(world)
          /\ mainpc # "pool"
  /\ (world.weekday >= 5 /\ osenv.FORCE_RUN = "true" /\ mainpc = "returned"
      /\ ~BagIn("Critical", execution_stats.errors))
       => /\ DOMAIN tasks = 1..Len(world.symbols)
          /\ execution_stats.total_symbols = Len(world.symbols)
          /\ \A i \in TaskIds : tasks[i].pc = "done" /\ tasks[i].result # "none"

\* run() returned on a weekend day without FORCE_RUN.
C8_Witness ==
  world.weekday >= 5 /\ osenv.FORCE_RUN # "true" /\ mainpc = "returned"

PastFetch(t) ==
  t.pc \in {"delete", "insert", "existing_dates", "upsert"} \/ InStats(t)

\* C9: a task makes at most 3 get_hist calls, one per attempt, and none
\* after the first that returned; a third call that returns rows hands the
\* normalized result to _upsert_data, and the task then ends as successful
\* unless a store write was issued and raised.
C9_RetryBoundary ==
  \A i \in TaskIds :
    /\ tasks[i].calls <= 3 /\ tasks[i].attempt <= 3
    /\ PastFetch(tasks[i]) =>
         /\ tasks[i].calls = tasks[i].attempt
         /\ tasks[i].df = tasks[i].applied /\ tasks[i].df # <<>>
    /\ tasks[i].applied # <<>> =>
         /\ PastFetch(tasks[i]) \/ tasks[i].pc \in {"failed_read", "failed_write", "done"}
         /\ tasks[i].pc = "done" => tasks[i].result \in {"success", "failed"}
         /\ tasks[i].result # "success" => tasks[i].pc # "done" \/ tasks[i].writes >= 1
         /\ tasks[i].pc \in {"failed_read", "failed_write"} => tasks[i].writes >= 1

\* Two calls raised, the third returned rows, and the task ended successful.
C9_Witness ==
  \E i \in TaskIds :
    tasks[i].calls = 3 /\ tasks[i].applied # <<>> /\ tasks[i].result = "success"

\* One step of some task.
TaskStep(i) ==
  \/ StartTask(i) \/ GateToday(i) \/ GateLast(i) \/ GetHist(i)
  \/ Delete(i) \/ Insert(i) \/ ExistingDates(i) \/ Upsert(i)
  \/ StatRead(i) \/ StatSuccessful(i) \/ StatTotal(i) \/ StatNew(i)
  \/ FailedRead(i) \/ FailedWrite(i)

\* The task's failure came from the fetch boundary: no df reached _upsert_data.
FetchFailed(t) ==
  /\ t.pc \in {"failed_read", "failed_write"} \/ t.result = "failed"
  /\ t.applied = <<>>

\* C10: a task whose fetch attempts all fail gives up after exactly 3
\* get_hist calls, its error is in the error list, failed_fetches is
\* incremented once per failed symbol at most (exactly once when the tasks
\* do not overlap), and the other tasks go on: while a task is unfinished a
\* task step is enabled, and run() returns only when every task has ended.
C10_RetriesExhausted ==
  /\ \A i \in TaskIds :
       FetchFailed(tasks[i]) =>
         /\ tasks[i].calls = 3 /\ tasks[i].writes = 0
         /\ CopiesIn(Symbols[i], execution_stats.errors) >= 3
  /\ execution_stats.failed_fetches <= Cardinality(Failed)
  /\ Sequential => execution_stats.failed_fetches = Cardinality(Failed)
  /\ (\E j \in TaskIds : tasks[j].pc # "done") => \E k \in TaskIds : ENABLED TaskStep(k)
  /\ mainpc = "returned" =>
       \A j \in TaskIds : tasks[j].pc = "done" /\ tasks[j].result # "none"

\* run() returned with one symbol failed at the fetch boundary and another
\* symbol successful.
C10_Witness ==
  /\ mainpc = "returned"
  /\ \E i, j \in TaskIds :
       /\ FetchFailed(tasks[i]) /\ tasks[i].result = "failed"
       /\ tasks[j].result = "success"

\* run() recorded a critical error, or load_config raised in main().
FatalError ==
  \/ BagIn("Critical", execution_stats.errors)
  \/ world.env.INCREMENTAL_FETCH_BARS \in {"true", "false"}

\* C11: when the process has exited, the exit code is 130 only on a user
\* interrupt; otherwise it is 0 exactly when no symbol failed and no fatal
\* error occurred, and 1 when a symbol failed or a fatal error occurred.
C11_ExitCode ==
  mainpc = "exited" =>
    /\ exit_code \in {0, 1, 130}
    /\ exit_code = 130 => world.interrupt
    /\ exit_code # 130 =>
         /\ exit_code = 0 <=> (Failed = {} /\ ~FatalError)
         /\ exit_code = 1 <=> (Failed # {} \/ FatalError)

\* The keys persisted in a set of rows.
KeysOf(rows) == {Key(r) : r \in rows}

\* C12: on an incremental job, a write of the reconciler keeps every
\* persisted row as it is, adds only rows whose (code, date) was not
\* persisted, and the new_count it returns is the number of rows added.
C12_GapFillOnly ==
  [][\A i \in TaskIds :
       (~config.FULL_REFRESH /\ tasks[i].pc = "upsert"
        /\ tasks'[i].pc = "stat_read")
       => /\ store \subseteq store'
          /\ \A r \in store' \ store : Key(r) \notin KeysOf(store)
          /\ tasks'[i].new_records = Cardinality(store' \ store)]_vars

\* The worker threads are scheduled, and every call of a collaborator
\* returns or raises: a task that can take a step takes one, and run()
\* goes on when the executor's with-block can end.
LiveWorlds ==
  {[BaseWorld EXCEPT !.symbols = <<"A", "B">>, !.args.full_refresh = f,
                     !.weekday = wd] : f \in BOOLEAN, wd \in {4, 5}}
  \cup {[BaseWorld EXCEPT !.interrupt = TRUE, !.args.workers = 1]}

LiveInit ==
  /\ world \in LiveWorlds
  /\ osenv = world.env
  /\ config = [FULL_REFRESH |-> FALSE, MAX_WORKERS |-> 5]
  /\ mainpc = "main"
  /\ store = InitialStore(world)
  /\ tasks = <<>>
  /\ execution_stats = InitialStats
  /\ exit_code = -1
  /\ report = [called |-> FALSE, saved |-> FALSE, stats |-> InitialStats]
  /\ tester = TesterIdle

LiveSpec ==
  /\ LiveInit /\ [][Next]_vars
  /\ WF_vars(\E i \in TaskIds : TaskStep(i))
  /\ WF_vars(RunReturn)

\* C13: the runner submits one task per symbol and returns only when every
\* task has completed; every submitted task eventually completes, and run()
\* eventually returns unless the user interrupts it.
C13_FanOutCompletes ==
  /\ [](tasks # <<>> => DOMAIN tasks = 1..Len(world.symbols))
  /\ []((mainpc = "returned" /\ ~BagIn("Critical", execution_stats.errors)
         /\ ~GuardSkips)
        => /\ DOMAIN tasks = 1..Len(world.symbols)
           /\ \A i \in TaskIds : tasks[i].result # "none")
  /\ (tasks # <<>>) ~> (\A i \in TaskIds : tasks[i].result # "none")
  /\ (mainpc = "pool" /\ ~world.interrupt) ~> (mainpc = "returned")

\* run() returned after one task failed and another was skipped or ended
\* successful.
C13_Witness ==
  /\ mainpc = "returned"
  /\ \E i, j \in TaskIds :
       /\ tasks[i].result = "failed"
       /\ tasks[j].result \in {"skipped", "success"}

\* C14: a get_hist call that does not raise (no error string is recorded)
\* and gives no row to the pipeline ends the task at once: no retry, no
\* store change, no statistics change, the task neither failed nor
\* successful; and a task that ended for lack of data never moves again.
C14_NoDataIsNoError ==
  /\ [][\A i \in TaskIds :
          (tasks[i].pc = "get_hist" /\ tasks'[i] # tasks[i]
           /\ execution_stats'.errors = execution_stats.errors)
          => /\ execution_stats' = execution_stats
             /\ store' = store
             /\ tasks'[i].calls = tasks[i].calls + 1
             /\ tasks'[i].applied = <<>> =>
                  /\ tasks'[i].pc = "done"
                  /\ tasks'[i].result \in {"nodata", "empty"}
                  /\ tasks'[i].writes = 0]_vars
  /\ [][\A i \in TaskIds :
          tasks[i].result = "nodata" => tasks'[i] = tasks[i]]_vars
  /\ [](\A i \in TaskIds :
          tasks[i].result = "nodata" =>
            /\ tasks[i].pc = "done" /\ tasks[i].writes = 0
            /\ tasks[i].calls \in 1..3)

\* run() returned with a task that ended for lack of data on its first
\* call, and no symbol counted failed or successful.
C14_Witness ==
  /\ mainpc = "returned"
  /\ \E i \in TaskIds : tasks[i].result = "nodata" /\ tasks[i].calls = 1
  /\ execution_stats.failed_fetches = 0
  /\ execution_stats.successful_fetches = 0

\* A step of task i in which its store write (delete, insert or upsert) did
\* not return.
WriteRaised(i) ==
  /\ tasks[i].pc \in {"delete", "insert", "upsert"}
  /\ tasks'[i] # tasks[i]
  /\ tasks'[i].pc \notin {"insert", "stat_read"}

\* C15: a store write that raises leaves the store and the statistics as
\* they are and takes the task to the except clause of _process_symbol,
\* which increments failed_fetches and nothing else and ends the task as
\* failed; from the moment a df reached _upsert_data the task makes no
\* further get_hist call, and after the failed write no further write.
C15_WriteFailurePropagates ==
  [][\A i \in TaskIds :
       /\ WriteRaised(i) =>
            /\ tasks'[i].pc = "failed_read"
            /\ tasks'[i].writes = tasks[i].writes + 1
            /\ store' = store /\ execution_stats' = execution_stats
       /\ tasks[i].applied # <<>> => tasks'[i].calls = tasks[i].calls
       /\ (tasks[i].pc \in {"failed_read", "failed_write"}
           /\ tasks'[i] # tasks[i]) =>
            /\ tasks'[i].writes = tasks[i].writes
            /\ tasks'[i].pc = IF tasks[i].pc = "failed_read"
                              THEN "failed_write" ELSE "done"
            /\ tasks'[i].pc = "done" =>
                 /\ tasks'[i].result = "failed"
                 /\ execution_stats' =
                      [execution_stats EXCEPT !.failed_fetches = tasks[i].reg + 1]
                 /\ store' = store
       /\ tasks[i].result = "failed" => tasks'[i] = tasks[i]]_vars

\* The insert of a full refresh raised after its delete returned, and the
\* task ended failed after one get_hist call.
C15_Witness ==
  \E i \in TaskIds :
    /\ tasks[i].result = "failed" /\ tasks[i].applied # <<>>
    /\ tasks[i].writes = 2 /\ tasks[i].calls = 1

\* The positions of a table whose four numeric fields are numeric.
ValidRows(tbl) == {k \in 1..Len(tbl) : tbl[k].ok}

SortedByDate(df) ==
  \A j, k \in 1..Len(df) : j < k => TsLeq(df[j].date, df[k].date)

\* C16: for every table of the provider (the bars' time of day is fixed
\* when the run starts) the normalizer returns one row per
\* row whose fields are all numeric and none for the others, in ascending
\* order of date; the df a task gives to the reconciler is such an output,
\* and a task whose table lost rows fails only if a store write raised.
C16_Normalizer ==
  /\ mainpc = "main" =>
     \A tbl \in ProviderTables : \A sym \in {"A", "a", "B"} :
       LET out == ProcessDataframe(tbl, sym) IN
         /\ Len(out) = Cardinality(ValidRows(tbl))
         /\ {out[k].date : k \in 1..Len(out)} =
              {Timestamp(tbl[k].day, world.barTime) : k \in ValidRows(tbl)}
         /\ SortedByDate(out)
  /\ \A i \in TaskIds :
       /\ tasks[i].df # <<>> =>
            /\ SortedByDate(tasks[i].df)
            /\ \E tbl \in ProviderTables :
                 /\ Len(tbl) = tasks[i].raw
                 /\ Len(tasks[i].df) = Cardinality(ValidRows(tbl))
       /\ (tasks[i].raw > 0 /\ tasks[i].pc \in {"failed_read", "failed_write"})
            => tasks[i].writes >= 1

\* A table of two rows, one of them with a non-numeric field, was
\* normalized to one row, and the write of that row returned.
C16_Witness ==
  \E i \in TaskIds :
    /\ tasks[i].raw = 2 /\ Len(tasks[i].df) = 1
    /\ tasks[i].pc = "stat_read" /\ tasks[i].writes >= 1

\* C17: a process that exits with the interrupt exit code has called
\* save_summary_report, and a report that was written holds the statistics
\* accumulated so far.
C17_InterruptReport ==
  (mainpc = "exited" /\ exit_code = 130) =>
    /\ report.called
    /\ report.saved => report.stats = execution_stats

\* C18: within a task, get_hist is called only after the gate of the
\* attempt answered fetch (when the gate is consulted) and before any
\* write; a store write is issued only for a normalized, non-empty df
\* that a returned get_hist call produced, and the store changes by such a
\* write alone; the task writes the success counters only after
\* _upsert_data returned (its write returned, or there was no new row).
C18_StepOrder ==
  [][\A i \in TaskIds :
       /\ tasks'[i].calls # tasks[i].calls =>
            /\ tasks[i].pc = "get_hist"
            /\ GateConsulted => tasks[i].gate \in {"fetch", "error"}
            /\ tasks[i].writes = 0 /\ tasks[i].applied = <<>>
       /\ tasks'[i].writes # tasks[i].writes =>
            /\ tasks[i].pc \in {"delete", "insert", "upsert"}
            /\ tasks[i].calls >= 1
            /\ tasks[i].df # <<>> /\ tasks[i].df = tasks[i].applied
            /\ SortedByDate(tasks[i].df)
       /\ store' # store =>
            \E j \in TaskIds : tasks'[j].writes = tasks[j].writes + 1
       /\ (tasks'[i] # tasks[i]
           /\ \/ execution_stats'.successful_fetches # execution_stats.successful_fetches
              \/ execution_stats'.total_records # execution_stats.total_records
              \/ execution_stats'.new_records # execution_stats.new_records) =>
            /\ InStats(tasks[i])
            /\ \/ tasks[i].writes >= 1
               \/ ~config.FULL_REFRESH /\ tasks[i].new_records = 0]_vars

\* A task went through the gate, one get_hist call, the normalizer, one
\* write and the statistics.
C18_Witness ==
  \E i \in TaskIds :
    /\ GateConsulted /\ ~tasks[i].gate_raised
    /\ tasks[i].result = "success"
    /\ tasks[i].calls = 1 /\ tasks[i].writes = 1

\* C19: without --full-refresh and --disable-incremental, whatever the
\* value of INCREMENTAL_FETCH_BARS, get_hist is called only after the gate
\* answered; and with INCREMENTAL_FETCH_BARS=true the configuration loads,
\* so that the process does not exit before run() was called.
C19_ToggleIndependent ==
  /\ (~world.args.full_refresh /\ ~world.args.disable_incremental) =>
       \A i \in TaskIds :
         tasks[i].pc = "get_hist" => tasks[i].gate \in {"fetch", "error"}
  /\ (world.env.INCREMENTAL_FETCH_BARS = "true" /\ mainpc = "exited") =>
       (report.called \/ exit_code = 130)

\* The tasks that ended without a df to reconcile: skipped by the gate, an
\* absent or empty table, or an empty normalized sequence.
Unprocessed ==
  {i \in TaskIds : tasks[i].result \in {"skipped", "nodata", "empty"}}

\* C20: successful_fetches + failed_fetches never exceeds total_symbols,
\* no counter exceeds the number of tasks that reached its increment, and
\* when run() has returned without a critical error the symbols counted in
\* neither are those skipped, without data, or with an empty sequence.
C20_CounterAccounting ==
  /\ execution_stats.successful_fetches + execution_stats.failed_fetches
       <= execution_stats.total_symbols
  /\ execution_stats.failed_fetches <= Cardinality(Failed)
  /\ execution_stats.successful_fetches <=
       Cardinality({i \in TaskIds : tasks[i].result = "success"
                                    \/ tasks[i].pc \in {"stat_total", "stat_new"}})
  /\ (mainpc = "returned" /\ ~BagIn("Critical", execution_stats.errors)) =>
       execution_stats.total_symbols - execution_stats.successful_fetches
         - execution_stats.failed_fetches = Cardinality(Unprocessed)

\* C21: on a full refresh a row leaves the store only in the delete step
\* of a task that holds a non-empty normalized df, and while no task has
\* obtained such a df the store holds every row it held at the start.
C21_DeleteAfterFetch ==
  /\ [][config.FULL_REFRESH =>
          (store' # store =>
             \E i \in TaskIds :
               /\ tasks[i].pc \in {"delete", "insert"}
               /\ tasks'[i].writes = tasks[i].writes + 1
               /\ tasks[i].df # <<>> /\ tasks[i].calls >= 1)]_vars
  /\ []((world.args.full_refresh
         /\ \A i \in TaskIds : tasks[i].df = <<>> /\ tasks[i].applied = <<>>)
        => store = InitialStore(world))

\* A full refresh in which every task ended without a df (retries exhausted,
\* no data, or every row dropped) and the symbol's rows are still persisted.
C21_Witness ==
  /\ world.args.full_refresh /\ mainpc = "returned" /\ tasks # <<>>
  /\ \A i \in TaskIds :
       /\ tasks[i].result \in {"failed", "nodata", "empty"}
       /\ tasks[i].applied = <<>>
       /\ RowsOf(Symbols[i]) # {}

\* The tasks of the symbols written under the same code as the symbol of
\* task i.
SameCode(i) == {j \in TaskIds : Upper(Symbols[j]) = Upper(Symbols[i])}

\* C22: on a full refresh, when every task of a code has ended and none of
\* them succeeded, the rows persisted for that code before the run are
\* still in the store.
C22_FailedRefreshKeepsRows ==
  world.args.full_refresh =>
    \A i \in TaskIds :
      (\A j \in SameCode(i) :
         tasks[j].pc = "done" /\ tasks[j].result # "success")
      => {r \in InitialStore(world) : r.code = Upper(Symbols[i])} \subseteq store

\* C23: the rows a read or a delete made for a symbol addresses are the
\* rows stamped with the symbol's upper-cased code: the code the store is
\* asked for selects the rows written for the symbol, and the delete of a
\* full refresh leaves none of them.
C23_SameInstrumentCode ==
  /\ [](mainpc \in {"run", "pool"} =>
          \A k \in 1..Len(world.symbols) :
            RowsOf(world.symbols[k]) = RowsOf(Upper(world.symbols[k])))
  /\ [][\A i \in TaskIds :
          (tasks[i].pc = "delete" /\ tasks'[i].pc = "insert")
          => \A r \in store' : r.code # Upper(Symbols[i])]_vars

\* The symbols with at least one entry in the error list.
ErrorSymbols == BagToSet(execution_stats.errors) \ {"Critical"}

\* C24: when run() has returned, the symbols with an entry in the error
\* list are the symbols of the failed tasks, and but for a critical error
\* the list is empty exactly when failed_fetches is 0.
C24_ErrorsMatchFailures ==
  mainpc = "returned" =>
    /\ ErrorSymbols = {Symbols[i] : i \in Failed}
    /\ ErrorSymbols = {} <=> execution_stats.failed_fetches = 0

\* The connection-test script alone: the fetcher does not run.
TesterInit ==
  /\ world = BaseWorld
  /\ osenv = world.env
  /\ config = [FULL_REFRESH |-> FALSE, MAX_WORKERS |-> 5]
  /\ mainpc = "main"
  /\ store = InitialStore(world)
  /\ tasks = <<>>
  /\ execution_stats = InitialStats
  /\ exit_code = -1
  /\ report = [called |-> FALSE, saved |-> FALSE, stats |-> InitialStats]
  /\ tester = TesterIdle

TesterNext ==
  \/ TestDataOperations
  \/ EnterMeasure
  \/ StoreCall
  \/ AssignResult
  \/ ExitMeasure

TesterSpec == TesterInit /\ [][TesterNext]_vars

\* C25: when test_data_operations has returned, results[op] is True for
\* every operation whose store call returned data without raising, and
\* False for the operations whose call raised or returned no data.
C25_MeasuredSuccess ==
  tester.pc = "done" =>
    \A k \in 1..Len(Operations) :
      tester.results[Operations[k]] = (tester.returned[Operations[k]] = "data")

====
